---- MODULE Spec2Model ----
(***************************************************************************)
(* A model of the webspace-ng daemon's Manager                             *)
(* (src/webspace_ng/daemon/webspace.py): the container admission/eviction  *)
(* scheduler, the custom-domain registry, the port allocator and the       *)
(* per-container option store.                                             *)
(*                                                                         *)
(* Python strings are modelled as sequences of one-character strings, so   *)
(* that slicing, find, endswith, split, join, int() and lower() are        *)
(* computed the way the code computes them.  A handler is a function       *)
(* from a "world" (the record of all shared tables plus the Runtime's      *)
(* containers) to a result [w, err, msg, val]: the world it leaves behind  *)
(* (also when it raises half-way), the exception class, its message and    *)
(* the returned value.                                                     *)
(***************************************************************************)
EXTENDS Integers, Sequences, FiniteSets, TLC

(***************************************************************************)
(* Python string primitives                                                *)
(***************************************************************************)
\* str.find(c): 0-based index of the first occurrence, -1 when absent
find(s, c) ==
    IF \E i \in 1..Len(s) : s[i] = c
    THEN (CHOOSE i \in 1..Len(s) : s[i] = c /\ \A j \in 1..(i - 1) : s[j] # c) - 1
    ELSE -1

\* s[i:] with Python's treatment of a negative or too large index
SliceFrom(s, i) ==
    LET n  == Len(s)
        st == IF i < 0 THEN (IF n + i < 0 THEN 0 ELSE n + i)
                       ELSE (IF i > n THEN n ELSE i)
    IN  SubSeq(s, st + 1, n)

\* s[:-n] for n >= 0 (s[:-0] is s[:0], the empty string)
DropLast(s, n) ==
    IF n = 0 \/ n >= Len(s) THEN <<>> ELSE SubSeq(s, 1, Len(s) - n)

\* str.endswith
endswith(s, suf) ==
    Len(s) >= Len(suf) /\ SubSeq(s, Len(s) - Len(suf) + 1, Len(s)) = suf

\* str.split(c): the segments between occurrences of c, empty ones included
RECURSIVE split(_, _)
split(s, c) ==
    LET i == find(s, c)
    IN  IF i = -1 THEN <<s>>
        ELSE <<SubSeq(s, 1, i)>> \o split(SubSeq(s, i + 2, Len(s)), c)

\* c.join(l)
RECURSIVE join(_, _)
join(c, l) ==
    IF l = <<>> THEN <<>>
    ELSE IF Len(l) = 1 THEN l[1]
    ELSE l[1] \o <<c>> \o join(c, Tail(l))

\* str.lower() on the letters the model uses
lower(s) ==
    [i \in 1..Len(s) |->
        CASE s[i] = "T" -> "t"
          [] s[i] = "R" -> "r"
          [] s[i] = "U" -> "u"
          [] s[i] = "E" -> "e"
          [] s[i] = "F" -> "f"
          [] s[i] = "A" -> "a"
          [] s[i] = "L" -> "l"
          [] s[i] = "S" -> "s"
          [] OTHER -> s[i]]

DigitChars == <<"0", "1", "2", "3", "4", "5", "6", "7", "8", "9">>
IsDigit(c) == \E d \in 1..Len(DigitChars) : DigitChars[d] = c
DigitVal(c) == (CHOOSE d \in 1..Len(DigitChars) : DigitChars[d] = c) - 1
IsDigits(s) == Len(s) > 0 /\ \A i \in 1..Len(s) : IsDigit(s[i])

RECURSIVE NatOf(_)
NatOf(s) ==
    IF s = <<>> THEN 0
    ELSE NatOf(SubSeq(s, 1, Len(s) - 1)) * 10 + DigitVal(s[Len(s)])

\* int(s) on a string: an optional sign and decimal digits, else ValueError
int_ok(s) ==
    \/ IsDigits(s)
    \/ Len(s) > 1 /\ s[1] \in {"-", "+"} /\ IsDigits(Tail(s))
int(s) ==
    IF s[1] = "-" THEN 0 - NatOf(Tail(s))
    ELSE IF s[1] = "+" THEN NatOf(Tail(s))
    ELSE NatOf(s)

\* str(n) / '%d' of an integer
RECURSIVE StrNat(_)
StrNat(n) ==
    IF n < 10 THEN <<DigitChars[n + 1]>>
    ELSE StrNat(n \div 10) \o <<DigitChars[(n % 10) + 1]>>
str(n) == IF n < 0 THEN <<"-">> \o StrNat(0 - n) ELSE StrNat(n)

\* list helpers
InSeq(x, l) == \E i \in 1..Len(l) : l[i] = x
\* list.remove(x) when x is in the list: drops the first occurrence
RemoveFirst(l, x) ==
    LET i == CHOOSE k \in 1..Len(l) : l[k] = x /\ \A j \in 1..(k - 1) : l[j] # x
    IN  SubSeq(l, 1, i - 1) \o SubSeq(l, i + 1, Len(l))
\* dict without a key
Without(f, k) == [x \in (DOMAIN f) \ {k} |-> f[x]]
\* dict with f[k] = v
With(f, k, v) == [x \in (DOMAIN f) \cup {k} |-> IF x = k THEN v ELSE f[x]]
\* every ordering of a finite set as a sequence
Orderings(S) ==
    {l \in [1..Cardinality(S) -> S] : \A i, j \in 1..Cardinality(S) : i # j => l[i] # l[j]}
\* sorted(set of integers)
RECURSIVE sorted(_)
sorted(S) ==
    IF S = {} THEN <<>>
    ELSE LET m == CHOOSE x \in S : \A y \in S : x <= y
         IN  <<m>> \o sorted(S \ {m})

None == <<"None">>


(***************************************************************************)
(* Configuration (self.config), the user database and the admin group      *)
(***************************************************************************)
run_limit == 2
lxd_suffix == <<"-", "w">>
domain_suffix == <<".", "w">>
ports_start == 11
ports_end == 14
ports_max == 2
max_startup_delay == 5
defaults_terminate_ssl == <<"f", "a", "l", "s", "e">>
defaults_startup_delay == <<"1">>

U_a == <<"a">>
U_b == <<"b">>
U_r == <<"r">>
U_z == <<"z">>
\* pwd.getpwnam succeeds exactly for these
pwd_users == {U_a, U_b, U_r}
\* grp.getgrnam(ADMIN_GROUP).gr_mem
admins == {U_r}
\* the user names a caller may pass as the target of a call
TargetArgs == pwd_users \cup {U_z}

\* LXD status codes: 103 is Running (the only code the daemon tests for)
Running == 103
Stopped == 102

user_container(user) == user \o lxd_suffix
container_user(name) == DropLast(name, Len(lxd_suffix))
user_domain(user) == user \o domain_suffix
ContainerNames == {user_container(u) : u \in pwd_users}

private_options == {"_domains", "_ports", "_domain_suffix"}
reserved_keys == {"terminate_ssl", "startup_delay", "http_port", "https_port"}

\* the 'config' of the container specification init() sends to the Runtime
get_new_config(user, image) ==
    [k \in {"name", "terminate_ssl", "startup_delay", "http_port", "https_port",
            "_domains", "_ports", "_domain_suffix"} |->
        CASE k = "name" -> user
          [] k = "terminate_ssl" -> defaults_terminate_ssl
          [] k = "startup_delay" -> defaults_startup_delay
          [] k = "http_port" -> <<"8", "0">>
          [] k = "https_port" -> <<"4", "4", "3">>
          [] k = "_domains" -> <<>>
          [] k = "_ports" -> <<>>
          [] k = "_domain_suffix" -> domain_suffix]

(***************************************************************************)
(* State.  status and config are the Container Runtime's containers        *)
(* (status code and the user.* configuration keys of each existing         *)
(* container); tcp_proxy is the Proxy Engine's forwarding table; the rest  *)
(* are the Manager's tables.  pc/frame hold the position and the locals    *)
(* of each request thread inside a handler that blocks half-way; ret is    *)
(* the outcome of the call that completed in the last step.  sessions are  *)
(* the ConsoleSession objects created so far (in order of creation);       *)
(* console_sessions and exec_sessions are the Manager's session tables,    *)
(* holding indices into sessions.                                          *)
(***************************************************************************)
VARIABLES status, config, running_containers, ip_cache, custom_domains,
          forwarded_ports, tcp_proxy, pc, frame, ret,
          sessions, console_sessions, exec_sessions

vars == <<status, config, running_containers, ip_cache, custom_domains,
          forwarded_ports, tcp_proxy, pc, frame, ret,
          sessions, console_sessions, exec_sessions>>

World ==
    [status |-> status, config |-> config,
     running_containers |-> running_containers, ip_cache |-> ip_cache,
     custom_domains |-> custom_domains, forwarded_ports |-> forwarded_ports,
     tcp_proxy |-> tcp_proxy, sessions |-> sessions,
     console_sessions |-> console_sessions, exec_sessions |-> exec_sessions]

SetWorld(w) ==
    /\ status' = w.status
    /\ config' = w.config
    /\ running_containers' = w.running_containers
    /\ ip_cache' = w.ip_cache
    /\ custom_domains' = w.custom_domains
    /\ forwarded_ports' = w.forwarded_ports
    /\ tcp_proxy' = w.tcp_proxy
    /\ sessions' = w.sessions
    /\ console_sessions' = w.console_sessions
    /\ exec_sessions' = w.exec_sessions

\* results of a handler or of a step of one
Ok(w, v) == [w |-> w, err |-> "none", msg |-> "", val |-> v]
Raise(w, e, m) == [w |-> w, err |-> e, msg |-> m, val |-> None]
OkV(v) == [err |-> "none", msg |-> "", val |-> v]
Err(e, m) == [err |-> e, msg |-> m, val |-> None]

(***************************************************************************)
(* The Container Runtime as the daemon uses it                             *)
(***************************************************************************)
\* client.containers.exists(name)
exists(w, name) == name \in DOMAIN w.status
\* client.containers.get(name): a snapshot of the container as it is now
get(w, name) ==
    [name |-> name, status_code |-> w.status[name], config |-> w.config[name]]

(***************************************************************************)
(* Validators of the reserved options                                      *)
(***************************************************************************)
S_true == <<"t", "r", "u", "e">>
S_false == <<"f", "a", "l", "s", "e">>

str2bool(s) ==
    LET ls == lower(s)
    IN  IF ls = S_true THEN OkV(TRUE)
        ELSE IF ls = S_false THEN OkV(FALSE)
        ELSE Err("ValueError", "Invalid boolean value")

port(s) ==
    IF ~int_ok(s) THEN Err("ValueError", "invalid literal for int()")
    ELSE IF int(s) <= 0 \/ int(s) > 65535
         THEN Err("ValueError", "Port must be in the range 1-65535")
         ELSE OkV(int(s))

startup_delay(s) ==
    IF ~int_ok(s) THEN Err("ValueError", "invalid literal for int()")
    ELSE IF int(s) > max_startup_delay
         THEN Err("ValueError", "Startup delay is too large")
    ELSE IF int(s) < 0
         THEN Err("ValueError", "Startup delay must be positive")
         ELSE OkV(int(s))

reserved_options(key, value) ==
    CASE key = "terminate_ssl" -> str2bool(value)
      [] key = "startup_delay" -> startup_delay(value)
      [] key = "http_port" -> port(value)
      [] key = "https_port" -> port(value)

get_user_option(container, key) ==
    IF key \notin DOMAIN container.config THEN Err("KeyError", key)
    ELSE IF key \in reserved_keys THEN reserved_options(key, container.config[key])
    ELSE OkV(container.config[key])

(***************************************************************************)
(* Decorators                                                              *)
(***************************************************************************)
check_user(caller, user) ==
    IF caller \in admins
    THEN IF user \in pwd_users THEN OkV(user)
         ELSE Err("WebspaceError", "User does not exist")
    ELSE OkV(caller)

\* a check_admin that lets every caller through
check_admin_open(caller) == OkV(caller)

check_admin(caller) ==
    IF caller \notin admins
    THEN Err("WebspaceError", "You must be an admin to call this function")
    ELSE OkV(caller)

check_init(w, caller, user) ==
    LET cu == check_user(caller, user)
    IN  IF cu.err # "none" THEN cu
        ELSE IF ~exists(w, user_container(cu.val))
             THEN Err("WebspaceError", "Your container has not been initialized")
             ELSE OkV([user |-> cu.val, container |-> get(w, user_container(cu.val))])

check_running(w, caller, user) ==
    LET ci == check_init(w, caller, user)
    IN  IF ci.err # "none" THEN ci
        ELSE IF ci.val.container.status_code # Running
             THEN Err("WebspaceError", "Your container is not running")
             ELSE ci


(***************************************************************************)
(* Persisted per-container lists (user._domains, user._ports)              *)
(***************************************************************************)
\* container.config.get('user.<key>', '')
config_get(container, key) ==
    IF key \in DOMAIN container.config THEN container.config[key] ELSE <<>>

NonEmpty(s) == Len(s) > 0

get_container_domains(container) ==
    SelectSeq(split(config_get(container, "_domains"), ","), NonEmpty)

\* container.save(): the Runtime replaces the stored configuration by the
\* configuration of the handler's container object
save(w, container) ==
    IF ~exists(w, container.name)
    THEN Raise(w, "NotFound", "container not found")
    ELSE Ok([w EXCEPT !.config[container.name] = container.config], None)

set_container_domains(w, container, domains) ==
    save(w, [container EXCEPT !.config = With(@, "_domains", join(",", domains))])

\* a dict {iport: eport} as the sequence of its items in insertion order
DictHas(d, k) == \E i \in 1..Len(d) : d[i][1] = k
DictGet(d, k) == d[CHOOSE i \in 1..Len(d) : d[i][1] = k][2]
DictSet(d, k, v) ==
    IF DictHas(d, k)
    THEN [i \in 1..Len(d) |-> IF d[i][1] = k THEN <<k, v>> ELSE d[i]]
    ELSE Append(d, <<k, v>>)
DictDel(d, k) == SelectSeq(d, LAMBDA it : it[1] # k)
DictValues(d) == [i \in 1..Len(d) |-> d[i][2]]

RECURSIVE DictOf(_)
DictOf(pairs) ==
    IF pairs = <<>> THEN <<>>
    ELSE LET n == Len(pairs)
         IN  DictSet(DictOf(SubSeq(pairs, 1, n - 1)), pairs[n][1], pairs[n][2])

get_container_ports(container) ==
    LET items == SelectSeq(split(config_get(container, "_ports"), ","), NonEmpty)
    IN  DictOf([i \in 1..Len(items) |->
                  LET kv == split(items[i], ":")
                  IN  <<int(kv[1]), int(kv[2])>>])

set_container_ports(w, container, ports) ==
    save(w, [container EXCEPT !.config =
        With(@, "_ports",
             join(",", [i \in 1..Len(ports) |->
                          str(ports[i][1]) \o <<":">> \o str(ports[i][2])]))])

(***************************************************************************)
(* The Proxy Engine (TcpProxy): its table of forwardings                   *)
(***************************************************************************)
add_forwarding(proxy, eport, user, iport) == With(proxy, eport, <<user, iport>>)
remove_forwarding(proxy, eport) == Without(proxy, eport)

(***************************************************************************)
(* Admission and eviction                                                  *)
(***************************************************************************)
\* Manager.stop_container, the whole locked block
stop_container(w, name) ==
    LET w1 == [w EXCEPT !.ip_cache = Without(@, name)]
    IN  IF ~InSeq(name, w1.running_containers)
        THEN Raise(w1, "ValueError", "list.remove(x): x not in list")
        ELSE LET w2 == [w1 EXCEPT !.running_containers = RemoveFirst(@, name)]
             IN  IF ~exists(w2, name) \/ w2.status[name] # Running
                 THEN Raise(w2, "LXDAPIException", "The container is already stopped")
                 ELSE Ok([w2 EXCEPT !.status[name] = Stopped], None)

\* the eviction at the head of Manager.start_container
evict(w) ==
    IF Len(w.running_containers) # run_limit THEN Ok(w, None)
    ELSE IF w.running_containers = <<>>
    THEN Raise(w, "IndexError", "pop from empty list")
    ELSE LET c  == Head(w.running_containers)
             w1 == [w EXCEPT !.running_containers = Tail(@)]
         IN  IF ~exists(w1, c) THEN Raise(w1, "NotFound", "container not found")
             ELSE IF w1.status[c] = Running THEN stop_container(w1, c)
             ELSE Ok(w1, None)

\* Manager.start_container, the whole locked block
start_container(w, container) ==
    LET e == evict(w)
    IN  IF e.err # "none" THEN e
        ELSE IF ~exists(e.w, container.name) \/ e.w.status[container.name] = Running
        THEN Raise(e.w, "LXDAPIException", "The container is already running")
        ELSE LET w1 == [e.w EXCEPT !.status[container.name] = Running,
                                   !.running_containers = Append(@, container.name)]
                 d  == get_user_option(container, "startup_delay")
             IN  IF d.err # "none" THEN Raise(w1, d.err, d.msg) ELSE Ok(w1, None)

(***************************************************************************)
(* IP discovery: the Runtime's answer to container.state() is an input     *)
(***************************************************************************)
IpIn1 == <<"10.0.0.2">>
IpIn2 == <<"10.0.0.3">>
IpOut == <<"192.168.1.5">>
IpV6 == <<"fd42::2">>
\* ip in self.config.lxd.net.cidr
InCidr(ip) == ip \in {IpIn1, IpIn2}
Addresses ==
    {[family |-> "inet", address |-> IpIn1], [family |-> "inet", address |-> IpIn2],
     [family |-> "inet", address |-> IpOut], [family |-> "inet6", address |-> IpV6]}
MaxAddrs == 2
NetInfos ==
    {[iface |-> FALSE, addresses |-> <<>>]} \cup
    {[iface |-> TRUE, addresses |-> a] :
        a \in UNION {[1..n -> Addresses] : n \in 0..MaxAddrs}}

\* the loop of get_container_ip over the inet addresses: the loop variable
\* (converted to str when inside the subnet) and the cache after each turn
RECURSIVE scan(_, _, _, _)
scan(addrs, name, cache, ip) ==
    IF addrs = <<>> THEN [cache |-> cache, ip |-> ip]
    ELSE LET a == Head(addrs)
         IN  IF InCidr(a)
             THEN scan(Tail(addrs), name, With(cache, name, a),
                       [type |-> "str", addr |-> a])
             ELSE scan(Tail(addrs), name, cache,
                       [type |-> "IPv4Address", addr |-> a])

Unbound == [type |-> "unbound", addr |-> None]

get_container_ip(w, container, net) ==
    LET s == IF container.status_code # Running
             THEN start_container(w, container) ELSE Ok(w, None)
    IN  IF s.err # "none" THEN s
        ELSE IF container.name \in DOMAIN s.w.ip_cache
        THEN Ok(s.w, [type |-> "str", addr |-> s.w.ip_cache[container.name]])
        ELSE IF ~net.iface THEN Raise(s.w, "WebspaceError", "iface")
        ELSE LET inet == SelectSeq(net.addresses, LAMBDA i : i.family = "inet")
                 r    == scan([i \in 1..Len(inet) |-> inet[i].address],
                              container.name, s.w.ip_cache, Unbound)
                 w1   == [s.w EXCEPT !.ip_cache = r.cache]
             IN  IF r.ip = Unbound
                 THEN Raise(w1, "UnboundLocalError",
                            "local variable 'ip' referenced before assignment")
                 ELSE Ok(w1, r.ip)


(***************************************************************************)
(* Lifecycle handlers                                                      *)
(***************************************************************************)
shutdown(w, caller, user) ==
    LET c == check_running(w, caller, user)
    IN  IF c.err # "none" THEN Raise(w, c.err, c.msg)
        ELSE stop_container(w, c.val.container.name)

reboot(w, caller, user) ==
    LET c == check_running(w, caller, user)
    IN  IF c.err # "none" THEN Raise(w, c.err, c.msg)
        ELSE Ok([w EXCEPT !.ip_cache = Without(@, c.val.container.name)], None)

\* the loop of delete over the external ports of the container
RECURSIVE release_ports(_, _)
release_ports(w, eports) ==
    IF eports = <<>> THEN Ok(w, None)
    ELSE LET e  == Head(eports)
             w1 == [w EXCEPT !.tcp_proxy = remove_forwarding(@, e)]
         IN  IF e \notin w1.forwarded_ports THEN Raise(w1, "KeyError", "eport")
             ELSE release_ports([w1 EXCEPT !.forwarded_ports = @ \ {e}], Tail(eports))

delete(w, caller, user) ==
    LET c == check_init(w, caller, user)
    IN  IF c.err # "none" THEN Raise(w, c.err, c.msg)
        ELSE LET container == c.val.container
                 s == IF container.status_code = Running
                      THEN stop_container(w, container.name) ELSE Ok(w, None)
             IN  IF s.err # "none" THEN s
                 ELSE LET r == release_ports(s.w, DictValues(get_container_ports(container)))
                      IN  IF r.err # "none" THEN r
                          ELSE Ok([r.w EXCEPT !.status = Without(@, container.name),
                                              !.config = Without(@, container.name)], None)

boot_and_ip(w, caller, user, net) ==
    LET a == check_admin(caller)
    IN  IF a.err # "none" THEN Raise(w, a.err, a.msg)
        ELSE IF ~exists(w, user_container(user))
        THEN Raise(w, "WebspaceError", "container not initialized")
        ELSE get_container_ip(w, get(w, user_container(user)), net)

\* the owner boot_and_host resolves for a host: [user] or [user |-> None, reason]
resolve(cd, host) ==
    LET wildcard_host == <<"*">> \o SliceFrom(host, find(host, "."))
    IN  IF host \in DOMAIN cd THEN [user |-> cd[host], reason |-> ""]
        ELSE IF wildcard_host \in DOMAIN cd
        THEN [user |-> cd[wildcard_host], reason |-> ""]
        ELSE IF endswith(host, domain_suffix)
        THEN LET user == DropLast(host, Len(domain_suffix))
             IN  IF user \in pwd_users THEN [user |-> user, reason |-> ""]
                 ELSE [user |-> None, reason |-> "user"]
        ELSE [user |-> None, reason |-> "not_webspace"]

\* val: the owner resolved (None before resolution or when it fails) and the reply
boot_and_host(w, caller, host, https_hint, net) ==
    LET a == check_admin(caller)
        o == resolve(w.custom_domains, host)
    IN  IF a.err # "none" THEN Raise(w, a.err, a.msg)
        ELSE IF o.user = None
        THEN Ok(w, [owner |-> None, reply |-> <<None, o.reason>>])
        ELSE IF ~exists(w, user_container(o.user))
        THEN Ok(w, [owner |-> o.user, reply |-> <<None, "init">>])
        ELSE LET container == get(w, user_container(o.user))
                 g == get_container_ip(w, container, net)
                 t == get_user_option(container, "terminate_ssl")
                 scheme == IF https_hint /\ ~t.val THEN "https" ELSE "http"
                 pt == get_user_option(container,
                           IF scheme = "https" THEN "https_port" ELSE "http_port")
             IN  IF g.err = "WebspaceError"
                 THEN Ok(g.w, [owner |-> o.user, reply |-> <<None, g.msg>>])
                 ELSE IF g.err # "none" THEN g
                 ELSE IF https_hint /\ t.err # "none" THEN Raise(g.w, t.err, t.msg)
                 ELSE IF pt.err # "none" THEN Raise(g.w, pt.err, pt.msg)
                 ELSE Ok(g.w, [owner |-> o.user,
                               reply |-> <<scheme, g.val.addr, pt.val>>])

(***************************************************************************)
(* Port allocator and forwarding table                                     *)
(***************************************************************************)
\* port() applied to an integer argument
port_n(n) ==
    IF n <= 0 \/ n > 65535
    THEN Err("ValueError", "Port must be in the range 1-65535")
    ELSE OkV(n)

\* check_valid_port on an integer argument
check_valid_port(p) ==
    IF (p # 0 /\ p < ports_start) \/ p > ports_end
    THEN Err("WebspaceError", "not a valid port")
    ELSE OkV(p)

\* the values random.randrange(a, b) may return
randrange(a, b) == a..(b - 1)

\* the loop of next_random_port over the sorted exclusion list
RECURSIVE skip_excluded(_, _)
skip_excluded(p, to_exclude) ==
    IF to_exclude = <<>> THEN p
    ELSE IF p < Head(to_exclude) THEN p
    ELSE skip_excluded(p + 1, Tail(to_exclude))

\* the draws next_random_port may make given the forwarded ports
Draws(fp) == randrange(ports_start, ports_end - Cardinality(fp) + 1)

\* an off-by-one in the loop: stops at an excluded port equal to the candidate
RECURSIVE skip_excluded_le(_, _)
skip_excluded_le(p, to_exclude) ==
    IF to_exclude = <<>> THEN p
    ELSE IF p <= Head(to_exclude) THEN p
    ELSE skip_excluded_le(p + 1, Tail(to_exclude))

next_random_port_le(fp, r) ==
    LET to_exclude == sorted(fp)
    IN  IF Len(to_exclude) + ports_start = ports_end
        THEN Err("WebspaceError", "all ports have been allocated")
        ELSE IF Draws(fp) = {}
        THEN Err("ValueError", "empty range for randrange()")
        ELSE OkV(skip_excluded_le(r, to_exclude))

\* next_random_port when random.randrange draws r
next_random_port(fp, r) ==
    LET to_exclude == sorted(fp)
    IN  IF Len(to_exclude) + ports_start = ports_end
        THEN Err("WebspaceError", "all ports have been allocated")
        ELSE IF Draws(fp) = {}
        THEN Err("ValueError", "empty range for randrange()")
        ELSE OkV(skip_excluded(r, to_exclude))

\* add_port, lines 487-506: the locked block, on the container object c
\* that check_init handed to the handler; random.randrange (if it comes to
\* it) draws r
add_port_locked(w, c, iport, eport, r) ==
    LET container == c.container
        existing  == get_container_ports(container)
        pi == port_n(iport)
        cv == check_valid_port(eport)
        nr == IF eport = 0 THEN next_random_port(w.forwarded_ports, r)
              ELSE OkV(eport)
    IN  IF pi.err # "none" THEN Raise(w, pi.err, pi.msg)
        ELSE IF DictHas(existing, pi.val)
        THEN Raise(w, "WebspaceError", "internal port is already forwarded")
        ELSE IF Len(existing) = ports_max
        THEN Raise(w, "WebspaceError", "you cannot forward any more ports")
        ELSE IF cv.err # "none" THEN Raise(w, cv.err, cv.msg)
        ELSE IF eport \in w.forwarded_ports
        THEN Raise(w, "WebspaceError", "external port has already been forwarded")
        ELSE IF nr.err # "none" THEN Raise(w, nr.err, nr.msg)
        ELSE LET w1 == [w EXCEPT
                          !.forwarded_ports = @ \cup {nr.val},
                          !.tcp_proxy = add_forwarding(@, nr.val, c.user, iport)]
                 sv == set_container_ports(w1, container,
                                           DictSet(existing, iport, nr.val))
             IN  IF sv.err # "none" THEN sv ELSE Ok(sv.w, nr.val)

\* add_port run without another thread in between
add_port(w, caller, user, iport, eport, r) ==
    LET c == check_init(w, caller, user)
    IN  IF c.err # "none" THEN Raise(w, c.err, c.msg)
        ELSE add_port_locked(w, c.val, iport, eport, r)

\* remove_port, lines 509-520: the locked block
remove_port_locked(w, c, iport) ==
    LET container == c.container
        pi    == port_n(iport)
        ports == get_container_ports(container)
    IN  IF pi.err # "none" THEN Raise(w, pi.err, pi.msg)
        ELSE IF ~DictHas(ports, iport)
        THEN Raise(w, "WebspaceError", "no port has been forwarded")
        ELSE LET eport == DictGet(ports, iport)
                 w1 == [w EXCEPT !.tcp_proxy = remove_forwarding(@, eport)]
             IN  IF eport \notin w1.forwarded_ports
                 THEN Raise(w1, "KeyError", "eport")
                 ELSE set_container_ports(
                          [w1 EXCEPT !.forwarded_ports = @ \ {eport}],
                          container, DictDel(ports, iport))

remove_port(w, caller, user, iport) ==
    LET c == check_init(w, caller, user)
    IN  IF c.err # "none" THEN Raise(w, c.err, c.msg)
        ELSE remove_port_locked(w, c.val, iport)

\* delete, lines 360-361: the container is stopped if its object says running
delete_stop(w, container) ==
    IF container.status_code = Running
    THEN stop_container(w, container.name) ELSE Ok(w, None)

\* delete, lines 363-365: the forwards listed in the container object are released
delete_release(w, container) ==
    release_ports(w, DictValues(get_container_ports(container)))

\* delete, line 366: container.delete(wait=True); the Runtime refuses to
\* delete a container it does not hold or that is running
delete_runtime(w, container) ==
    IF ~exists(w, container.name) THEN Raise(w, "NotFound", "container not found")
    ELSE IF w.status[container.name] = Running
    THEN Raise(w, "LXDAPIException", "container is running")
    ELSE Ok([w EXCEPT !.status = Without(@, container.name),
                      !.config = Without(@, container.name)], None)

(***************************************************************************)
(* Option store                                                            *)
(***************************************************************************)
\* a set_option that stores the value before it validates it
set_option_store_first(w, caller, user, key, value) ==
    LET c == check_init(w, caller, user)
    IN  IF c.err # "none" THEN Raise(w, c.err, c.msg)
        ELSE LET sv == save(w, [c.val.container EXCEPT !.config = With(@, key, value)])
                 v  == IF key \in reserved_keys THEN reserved_options(key, value)
                       ELSE OkV(None)
             IN  IF key \in private_options
                 THEN Raise(sv.w, "WebspaceError", "private option may not be set")
                 ELSE IF v.err # "none" THEN Raise(sv.w, v.err, v.msg)
                 ELSE sv

set_option(w, caller, user, key, value) ==
    LET c == check_init(w, caller, user)
        v == IF key \in reserved_keys THEN reserved_options(key, value) ELSE OkV(None)
    IN  IF c.err # "none" THEN Raise(w, c.err, c.msg)
        ELSE IF key \in private_options
        THEN Raise(w, "WebspaceError", "private option may not be set")
        ELSE IF v.err # "none" THEN Raise(w, v.err, v.msg)
        ELSE save(w, [c.val.container EXCEPT !.config = With(@, key, value)])

unset_option(w, caller, user, key) ==
    LET c == check_init(w, caller, user)
    IN  IF c.err # "none" THEN Raise(w, c.err, c.msg)
        ELSE IF key \in private_options \/ key \in reserved_keys
        THEN Raise(w, "WebspaceError", "reserved/private option may not be unset")
        ELSE IF key \notin DOMAIN c.val.container.config
        THEN Raise(w, "KeyError", key)
        ELSE save(w, [c.val.container EXCEPT !.config = Without(@, key)])

(***************************************************************************)
(* init: the check, then the Runtime's create (which blocks)               *)
(***************************************************************************)
\* an init that does not look whether the container exists
init_check_none(w, caller, user) ==
    LET cu == check_user(caller, user)
    IN  IF cu.err # "none" THEN cu ELSE OkV(cu.val)

\* lines 246-249: the target user, or the error
init_check(w, caller, user) ==
    LET cu == check_user(caller, user)
    IN  IF cu.err # "none" THEN cu
        ELSE IF exists(w, user_container(cu.val))
        THEN Err("WebspaceError", "Your container has already been initialized!")
        ELSE OkV(cu.val)

\* client.containers.create(get_new_config(user, image), wait=True): the
\* Runtime refuses a name it already holds
init_create(w, user, image) ==
    IF exists(w, user_container(user))
    THEN Raise(w, "LXDAPIException", "Container already exists")
    ELSE Ok([w EXCEPT !.status = With(@, user_container(user), Stopped),
                      !.config = With(@, user_container(user),
                                      get_new_config(user, image))], None)

(***************************************************************************)
(* Domain registry.  add_domain and remove_domain test the global map      *)
(* before they take the lock; add_domain's DNS query lies in between.      *)
(***************************************************************************)
TxtPrefix == <<"w", "e", "b", "s", "p", "a", "c", "e", ":">>

\* decorators and line 454: the handler's locals, or the error
add_domain_check(w, caller, user, domain) ==
    LET c == check_init(w, caller, user)
    IN  IF c.err # "none" THEN c
        ELSE IF domain \in DOMAIN w.custom_domains
        THEN Err("WebspaceError", "has already been configured as a custom domain")
        ELSE OkV([op |-> "add_domain", caller |-> caller, arg |-> user,
                  user |-> c.val.user, container |-> c.val.container,
                  domain |-> domain])

\* lines 457-470, once the DNS query has answered
add_domain_commit(w, f, answer) ==
    IF answer.rcode # "NOERROR" THEN Raise(w, "NXDOMAIN", "the DNS query name does not exist")
    ELSE IF (TxtPrefix \o f.user) \notin answer.txt
    THEN Raise(w, "WebspaceError", "has not been verified")
    ELSE set_container_domains(
             [w EXCEPT !.custom_domains = With(@, f.domain, f.user)],
             f.container, Append(get_container_domains(f.container), f.domain))

\* decorators and line 473
remove_domain_check(w, caller, user, domain) ==
    LET c == check_init(w, caller, user)
    IN  IF c.err # "none" THEN c
        ELSE IF domain \notin DOMAIN w.custom_domains
        THEN Err("WebspaceError", "has not been configured as a custom domain")
        ELSE OkV([op |-> "remove_domain", caller |-> caller, arg |-> user,
                  user |-> c.val.user, container |-> c.val.container,
                  domain |-> domain])

\* lines 476-480, the locked block
remove_domain_commit(w, f) ==
    IF f.domain \notin DOMAIN w.custom_domains THEN Raise(w, "KeyError", "domain")
    ELSE LET w1 == [w EXCEPT !.custom_domains = Without(@, f.domain)]
             domains == get_container_domains(f.container)
         IN  IF ~InSeq(f.domain, domains)
             THEN Raise(w1, "ValueError", "list.remove(x): x not in list")
             ELSE set_container_domains(w1, f.container, RemoveFirst(domains, f.domain))

\* the handlers run without another thread in between
add_domain(w, caller, user, domain, answer) ==
    LET c == add_domain_check(w, caller, user, domain)
    IN  IF c.err # "none" THEN Raise(w, c.err, c.msg)
        ELSE add_domain_commit(w, c.val, answer)

remove_domain(w, caller, user, domain) ==
    LET c == remove_domain_check(w, caller, user, domain)
    IN  IF c.err # "none" THEN Raise(w, c.err, c.msg)
        ELSE remove_domain_commit(w, c.val)

(***************************************************************************)
(* ConsoleSession (daemon/console.py): the Session Tunnel of one console   *)
(* or exec.  state is the tunnel's lifecycle state, sock whether its       *)
(* rendezvous socket file exists, barrier whether a text frame waits on    *)
(* the remote data channel, cancel whether its cancellation signal is set. *)
(***************************************************************************)
ConsoleSession(user, kind) ==
    [user |-> user, kind |-> kind, state |-> "INIT", sock |-> FALSE,
     barrier |-> FALSE, cancel |-> FALSE]

\* session.start(): the socket is bound and the tunnel's task waits for a peer
session_start(s) == [s EXCEPT !.state = "WAITING_PEER", !.sock = TRUE]

\* session.stop(join=True): the cancellation signal is raised and the caller
\* waits until the tunnel's task has terminated
session_stop(s) == [s EXCEPT !.state = "CLOSED", !.sock = FALSE, !.cancel = TRUE]

\* WAITING_PEER: the local peer connects to the rendezvous socket; the
\* listening socket is closed and the tunnel's loop starts
session_accept(s) == [s EXCEPT !.state = "OPEN"]

\* the Runtime sends a text frame (the message barrier) on the data channel
session_frame(s) == [s EXCEPT !.barrier = TRUE]

\* OPEN: the local peer closes (zero-length read) or a channel fails
session_hangup(s) == [s EXCEPT !.state = "CLOSING"]

\* one wake-up of the tunnel's task.  WAITING_PEER waits on the cancellation
\* signal and the listening socket only, so a frame on the data channel does
\* not wake it; OPEN reads the text frame and starts closing; CLOSING closes
\* the peer connection and the channels and unlinks the socket file.
session_run(s) ==
    IF s.state = "OPEN" /\ s.barrier THEN [s EXCEPT !.state = "CLOSING"]
    ELSE IF s.state = "CLOSING" THEN [s EXCEPT !.state = "CLOSED", !.sock = FALSE]
    ELSE s

\* a new started session appended to the sessions created so far
start_session(w, user, kind) ==
    [w EXCEPT !.sessions = Append(@, session_start(ConsoleSession(user, kind)))]

(***************************************************************************)
(* exec and console handlers                                               *)
(***************************************************************************)
\* lines 84-86: the session of (user, session_id), or the error
check_exec(w, caller, user, session_id) ==
    LET c == check_running(w, caller, user)
    IN  IF c.err # "none" THEN c
        ELSE IF c.val.user \notin DOMAIN w.exec_sessions
        THEN Err("WebspaceError", "Your container doesn't have any active exec sessions")
        ELSE IF session_id \notin DOMAIN w.exec_sessions[c.val.user]
        THEN Err("KeyError", "session_id")
        ELSE OkV([user |-> c.val.user,
                  session |-> w.exec_sessions[c.val.user][session_id]])

\* exec: the session id (a fresh uuid) is modelled by the session's index
exec(w, caller, user) ==
    LET c == check_init(w, caller, user)
    IN  IF c.err # "none" THEN Raise(w, c.err, c.msg)
        ELSE LET st == IF c.val.container.status_code # Running
                       THEN start_container(w, c.val.container) ELSE Ok(w, None)
             IN  IF st.err # "none" THEN st
                 ELSE LET w1  == start_session(st.w, c.val.user, "exec")
                          sid == Len(w1.sessions)
                          tab == IF c.val.user \in DOMAIN w1.exec_sessions
                                 THEN w1.exec_sessions[c.val.user] ELSE <<>>
                      IN  Ok([w1 EXCEPT !.exec_sessions =
                                 With(@, c.val.user, With(tab, sid, sid))], sid)

\* exec_resize and exec_signal: a request on the session's control channel
exec_control(w, caller, user, session_id) ==
    LET c == check_exec(w, caller, user, session_id)
    IN  IF c.err # "none" THEN Raise(w, c.err, c.msg) ELSE Ok(w, None)

exec_close(w, caller, user, session_id) ==
    LET c == check_exec(w, caller, user, session_id)
    IN  IF c.err # "none" THEN Raise(w, c.err, c.msg)
        ELSE LET w1 == [w EXCEPT !.sessions[c.val.session] = session_stop(@)]
             IN  \* del self.console_sessions[user][sid]
                 IF c.val.user \notin DOMAIN w1.console_sessions
                 THEN Raise(w1, "KeyError", "user")
                 ELSE Raise(w1, "TypeError",
                            "'ConsoleSession' object does not support item deletion")

\* console, lines 309-329: decorators, on-demand start, the console request
console_open(w, caller, user) ==
    LET c == check_init(w, caller, user)
    IN  IF c.err # "none" THEN Raise(w, c.err, c.msg)
        ELSE LET st == IF c.val.container.status_code # Running
                       THEN start_container(w, c.val.container) ELSE Ok(w, None)
             IN  IF st.err # "none" THEN st ELSE Ok(st.w, c.val.user)

\* console, lines 334-338: the new session is created, started and stored
console_store(w, user) ==
    LET w1 == start_session(w, user, "console")
    IN  Ok([w1 EXCEPT !.console_sessions = With(@, user, Len(w1.sessions))],
           Len(w1.sessions))

\* console, line 333 once stop(join=True) has returned, then lines 334-338
console_join(w, user, old) ==
    console_store([w EXCEPT !.sessions[old] = session_stop(@)], user)

(***************************************************************************)
(* _dispatch                                                               *)
(***************************************************************************)
allowed ==
    {"images", "init", "status", "log", "console", "console_close",
     "console_resize", "shutdown", "reboot", "delete", "boot_and_host",
     "boot_and_ip", "get_config", "set_option", "unset_option",
     "get_domains", "add_domain", "remove_domain", "get_ports",
     "add_port", "remove_port", "exec", "exec_close", "exec_resize",
     "exec_signal"}

\* _dispatch(method, params) for the methods whose params are a user or a host
dispatch(w, caller, method, param, net) ==
    IF method \notin allowed
    THEN Raise(w, "Exception", "method is not supported")
    ELSE CASE method = "boot_and_ip" -> boot_and_ip(w, caller, param, net)
           [] method = "boot_and_host" -> boot_and_host(w, caller, param, FALSE, net)
           [] method = "shutdown" -> shutdown(w, caller, param)
           [] method = "reboot" -> reboot(w, caller, param)
           [] method = "delete" -> delete(w, caller, param)

(***************************************************************************)
(* Manager.__init__: the tables rebuilt from the Runtime's containers      *)
(***************************************************************************)
Images == {"img"}
Threads == {1, 2}

NoRet == [op |-> "-", caller |-> None, user |-> None, arg |-> None,
          err |-> "none", msg |-> "", val |-> None]
NoFrame == [op |-> "-"]

\* the containers a Runtime may hold when the daemon starts: any of the
\* users' containers, freshly created, running or stopped
StartupRuntimes(users) ==
    {st \in UNION {[{user_container(u) : u \in E} -> {Running, Stopped}] :
                      E \in SUBSET users} : TRUE}

InitFrom(users) ==
    /\ status \in StartupRuntimes(users)
    /\ config = [n \in DOMAIN status |-> get_new_config(container_user(n), "img")]
    \* running_containers: the running ones, in the order containers.all() lists them
    /\ running_containers \in
          Orderings({n \in DOMAIN status :
                        endswith(n, lxd_suffix) /\ status[n] = Running})
    /\ ip_cache = <<>>
    /\ custom_domains = <<>>
    /\ forwarded_ports = {}
    /\ tcp_proxy = <<>>
    /\ pc = [t \in Threads |-> "idle"]
    /\ frame = [t \in Threads |-> NoFrame]
    /\ ret = NoRet
    /\ sessions = <<>>
    /\ console_sessions = <<>>
    /\ exec_sessions = <<>>

Init == InitFrom(pwd_users)

(***************************************************************************)
(* Actions: one per handler (or per blocking step of one)                  *)
(***************************************************************************)
MaxRunning == 3

\* the call completes with result r
Done(op, caller, user, arg, r) ==
    /\ Len(r.w.running_containers) <= MaxRunning
    /\ SetWorld(r.w)
    /\ ret' = [op |-> op, caller |-> caller, user |-> user, arg |-> arg,
               err |-> r.err, msg |-> r.msg, val |-> r.val]

\* what a caller may pass as the target: anything for an admin; a caller
\* who is no admin passes no target (check_user supplies their own name)
Targets(caller) == IF caller \in admins THEN TargetArgs ELSE {caller}

Shutdown(caller, user) ==
    /\ Done("shutdown", caller, user, None, shutdown(World, caller, user))
    /\ UNCHANGED <<pc, frame>>

Reboot(caller, user) ==
    /\ Done("reboot", caller, user, None, reboot(World, caller, user))
    /\ UNCHANGED <<pc, frame>>

Delete(caller, user) ==
    /\ Done("delete", caller, user, None, delete(World, caller, user))
    /\ UNCHANGED <<pc, frame>>

BootAndIp(caller, user, net) ==
    /\ Done("boot_and_ip", caller, user, None, boot_and_ip(World, caller, user, net))
    /\ UNCHANGED <<pc, frame>>

BootAndHost(caller, host, https_hint, net) ==
    /\ Done("boot_and_host", caller, None, host,
            boot_and_host(World, caller, host, https_hint, net))
    /\ UNCHANGED <<pc, frame>>

\* a running container stops by itself (poweroff inside it, a crash)
OutOfBandStop(name) ==
    /\ name \in DOMAIN status
    /\ status[name] = Running
    /\ status' = [status EXCEPT ![name] = Stopped]
    /\ ret' = NoRet
    /\ UNCHANGED <<config, running_containers, ip_cache, custom_domains,
                   forwarded_ports, tcp_proxy, pc, frame, sessions,
                   console_sessions, exec_sessions>>

\* inputs of the scheduler specification
SchedCallers == {U_r}
SchedHosts == {<<"a", ".", "w">>, <<"z", ".", "w">>}
SchedNets ==
    {[iface |-> FALSE, addresses |-> <<>>],
     [iface |-> TRUE, addresses |-> <<[family |-> "inet", address |-> IpIn1]>>]}

NextSched ==
    \/ \E caller \in SchedCallers, user \in TargetArgs :
          user \in Targets(caller) /\ Shutdown(caller, user)
    \/ \E caller \in SchedCallers, user \in TargetArgs :
          user \in Targets(caller) /\ Reboot(caller, user)
    \/ \E caller \in SchedCallers, user \in TargetArgs :
          user \in Targets(caller) /\ Delete(caller, user)
    \/ \E caller \in SchedCallers, user \in TargetArgs, net \in SchedNets :
          BootAndIp(caller, user, net)
    \/ \E caller \in SchedCallers, host \in SchedHosts, hint \in BOOLEAN, net \in SchedNets :
          BootAndHost(caller, host, hint, net)
    \/ \E name \in ContainerNames : OutOfBandStop(name)

SpecSched == Init /\ [][NextSched]_vars


(***************************************************************************)
(* The port specification: two stopped containers, add_port / remove_port  *)
(***************************************************************************)
AddPort(caller, user, iport, eport, r) ==
    /\ Done("add_port", caller, user, <<iport, eport>>,
            add_port(World, caller, user, iport, eport, r))
    /\ UNCHANGED <<pc, frame>>

RemovePort(caller, user, iport) ==
    /\ Done("remove_port", caller, user, <<iport>>,
            remove_port(World, caller, user, iport))
    /\ UNCHANGED <<pc, frame>>

PortCallers == {U_a, U_b}
IPortArgs == {0, 22, 80}
EPortArgs == {0} \cup ((ports_start - 1)..(ports_end + 1))
\* the draw handed to add_port: one of randrange's values, if it has any
DrawArgs == IF Draws(forwarded_ports) = {} THEN {0} ELSE Draws(forwarded_ports)

InitPorts ==
    /\ InitFrom({U_a, U_b})
    /\ DOMAIN status = {user_container(U_a), user_container(U_b)}
    /\ \A n \in DOMAIN status : status[n] = Stopped

NextPorts ==
    \/ \E caller \in PortCallers, iport \in IPortArgs, eport \in EPortArgs :
          \E r \in (IF eport = 0 THEN DrawArgs ELSE {0}) :
             AddPort(caller, caller, iport, eport, r)
    \/ \E caller \in PortCallers, iport \in IPortArgs :
          RemovePort(caller, caller, iport)

SpecPorts == InitPorts /\ [][NextPorts]_vars

(***************************************************************************)
(* The option specification: one container, set_option / unset_option      *)
(***************************************************************************)
SetOption(caller, user, key, value) ==
    /\ Done("set_option", caller, user, <<key, value>>,
            set_option(World, caller, user, key, value))
    /\ UNCHANGED <<pc, frame>>

UnsetOption(caller, user, key) ==
    /\ Done("unset_option", caller, user, <<key>>,
            unset_option(World, caller, user, key))
    /\ UNCHANGED <<pc, frame>>

OptionKeys == reserved_keys \cup {"_domains", "motd"}
OptionValues ==
    {<<"T", "r", "u", "e">>, <<"0">>, <<"5">>, <<"6">>, <<"-", "1">>}

InitOptions ==
    /\ InitFrom({U_a})
    /\ DOMAIN status = {user_container(U_a)}
    /\ status[user_container(U_a)] = Stopped

NextOptions ==
    \/ \E caller \in {U_a, U_r}, key \in OptionKeys, value \in OptionValues :
          SetOption(caller, U_a, key, value)
    \/ \E caller \in {U_a, U_r}, key \in OptionKeys :
          UnsetOption(caller, U_a, key)

SpecOptions == InitOptions /\ [][NextOptions]_vars

(***************************************************************************)
(* Handlers that block half-way: a thread per request                      *)
(***************************************************************************)
\* the step completes the thread's call with result r
Return(t, op, caller, user, arg, r) ==
    /\ Done(op, caller, user, arg, r)
    /\ pc' = [pc EXCEPT ![t] = "idle"]
    /\ frame' = [frame EXCEPT ![t] = NoFrame]

\* the step leaves the thread blocked at label with locals f
Block(t, label, f) ==
    /\ pc' = [pc EXCEPT ![t] = label]
    /\ frame' = [frame EXCEPT ![t] = f]
    /\ ret' = NoRet
    /\ UNCHANGED <<status, config, running_containers, ip_cache, custom_domains,
                   forwarded_ports, tcp_proxy, sessions, console_sessions,
                   exec_sessions>>

InitCall(t, caller, user, image) ==
    /\ pc[t] = "idle"
    /\ LET c == init_check(World, caller, user)
       IN  IF c.err # "none"
           THEN Return(t, "init", caller, user, image, Raise(World, c.err, c.msg))
           ELSE Block(t, "init_create",
                      [op |-> "init", caller |-> caller, arg |-> user,
                       user |-> c.val, image |-> image])

InitCreate(t) ==
    /\ pc[t] = "init_create"
    /\ Return(t, "init", frame[t].caller, frame[t].arg, frame[t].image,
              init_create(World, frame[t].user, frame[t].image))

InitInit ==
    /\ InitFrom({U_a, U_b})
    /\ \A n \in DOMAIN status : status[n] = Stopped

NextInit ==
    \/ \E t \in Threads, caller \in {U_a, U_b, U_r}, user \in TargetArgs, image \in Images :
          user \in Targets(caller) /\ user # U_r /\ InitCall(t, caller, user, image)
    \/ \E t \in Threads : InitCreate(t)
    \/ \E caller \in {U_a, U_b} : Delete(caller, caller)

SpecInit == InitInit /\ [][NextInit]_vars

(***************************************************************************)
(* The domain specification: two containers, two request threads           *)
(***************************************************************************)
MaxDomains == 2
D_wild == <<"*", ".", "d">>
D_star == <<"*", "d">>
Domains == {D_wild, D_star}
DnsAnswers ==
    {[rcode |-> "NXDOMAIN", txt |-> {}]} \cup
    {[rcode |-> "NOERROR", txt |-> {TxtPrefix \o u : u \in V}] :
        V \in {{U_a}, {U_b}, {U_a, U_b}}}

AddDomainCall(t, caller, user, domain) ==
    /\ pc[t] = "idle"
    /\ LET c == add_domain_check(World, caller, user, domain)
       IN  IF c.err # "none"
           THEN Return(t, "add_domain", caller, user, domain, Raise(World, c.err, c.msg))
           ELSE Block(t, "add_domain_dns", c.val)

AddDomainCommit(t, answer) ==
    /\ pc[t] = "add_domain_dns"
    /\ Len(get_container_domains(frame[t].container)) < MaxDomains
    /\ Return(t, "add_domain", frame[t].caller, frame[t].arg, frame[t].domain,
              add_domain_commit(World, frame[t], answer))

RemoveDomainCall(t, caller, user, domain) ==
    /\ pc[t] = "idle"
    /\ LET c == remove_domain_check(World, caller, user, domain)
       IN  IF c.err # "none"
           THEN Return(t, "remove_domain", caller, user, domain, Raise(World, c.err, c.msg))
           ELSE Block(t, "remove_domain_lock", c.val)

RemoveDomainCommit(t) ==
    /\ pc[t] = "remove_domain_lock"
    /\ Return(t, "remove_domain", frame[t].caller, frame[t].arg, frame[t].domain,
              remove_domain_commit(World, frame[t]))

InitDomains ==
    /\ InitFrom({U_a, U_b})
    /\ DOMAIN status = {user_container(U_a), user_container(U_b)}
    /\ \A n \in DOMAIN status : status[n] = Stopped

NextDomains ==
    \/ \E t \in Threads, caller \in {U_a, U_b}, domain \in Domains :
          AddDomainCall(t, caller, caller, domain)
    \/ \E t \in Threads, answer \in DnsAnswers : AddDomainCommit(t, answer)
    \/ \E t \in Threads, caller \in {U_a, U_b}, domain \in Domains :
          RemoveDomainCall(t, caller, caller, domain)
    \/ \E t \in Threads : RemoveDomainCommit(t)

SpecDomains == InitDomains /\ [][NextDomains]_vars

(***************************************************************************)
(* The resolution specification: domains are registered, the proxy asks    *)
(***************************************************************************)
ResolveHosts ==
    {<<"d">>, <<"x", ".", "d">>, D_wild, <<"a", ".", "w">>, <<"z", ".", "w">>}
ResolveNet == [iface |-> TRUE, addresses |-> <<[family |-> "inet", address |-> IpIn1]>>]

NextResolve ==
    \/ \E caller \in {U_a, U_b}, domain \in Domains :
          AddDomainCall(1, caller, caller, domain)
    \/ \E answer \in DnsAnswers : AddDomainCommit(1, answer)
    \/ \E host \in ResolveHosts : BootAndHost(U_r, host, FALSE, ResolveNet)

SpecResolve == InitDomains /\ [][NextResolve]_vars

(***************************************************************************)
(* The session specification: containers running, console and exec calls   *)
(***************************************************************************)
MaxSessions == 3
SidArgs == 1..MaxSessions

Exec(caller, user) ==
    /\ Len(sessions) < MaxSessions
    /\ Done("exec", caller, user, None, exec(World, caller, user))
    /\ UNCHANGED <<pc, frame>>

ExecControl(op, caller, user, sid) ==
    /\ Done(op, caller, user, sid, exec_control(World, caller, user, sid))
    /\ UNCHANGED <<pc, frame>>

ExecClose(caller, user, sid) ==
    /\ Done("exec_close", caller, user, sid, exec_close(World, caller, user, sid))
    /\ UNCHANGED <<pc, frame>>

\* decorators, on-demand start; the thread then waits for the Runtime's
\* answer to the console request
ConsoleCall(t, caller, user) ==
    /\ pc[t] = "idle"
    /\ LET r == console_open(World, caller, user)
       IN  IF r.err # "none"
           THEN Return(t, "console", caller, user, None, r)
           ELSE /\ SetWorld(r.w)
                /\ pc' = [pc EXCEPT ![t] = "console_post"]
                /\ frame' = [frame EXCEPT ![t] =
                                [op |-> "console", caller |-> caller, arg |-> user,
                                 user |-> r.val]]
                /\ ret' = NoRet

\* line 331: with a session on record the thread waits in stop(join=True),
\* without one it creates and stores the new session
ConsoleCheck(t) ==
    /\ pc[t] = "console_post"
    /\ IF frame[t].user \in DOMAIN console_sessions
       THEN Block(t, "console_join",
                  [frame[t] EXCEPT !.op = "console"] @@
                  [old |-> console_sessions[frame[t].user]])
       ELSE /\ Len(sessions) < MaxSessions
            /\ Return(t, "console", frame[t].caller, frame[t].arg, None,
                      console_store(World, frame[t].user))

ConsoleJoin(t) ==
    /\ pc[t] = "console_join"
    /\ Len(sessions) < MaxSessions
    /\ Return(t, "console", frame[t].caller, frame[t].arg, None,
              console_join(World, frame[t].user, frame[t].old))

SessionCallers == {U_a}

InitSessions ==
    /\ InitFrom({U_a, U_b})
    /\ DOMAIN status = {user_container(U_a), user_container(U_b)}
    /\ \A n \in DOMAIN status : status[n] = Running

NextSessions ==
    \/ \E caller \in SessionCallers : Exec(caller, caller)
    \/ \E caller \in SessionCallers, sid \in SidArgs :
          ExecControl("exec_resize", caller, caller, sid)
    \/ \E caller \in SessionCallers, sid \in SidArgs :
          ExecControl("exec_signal", caller, caller, sid)
    \/ \E caller \in SessionCallers, sid \in SidArgs : ExecClose(caller, caller, sid)
    \/ \E t \in Threads, caller \in SessionCallers : ConsoleCall(t, caller, caller)
    \/ \E t \in Threads : ConsoleCheck(t)
    \/ \E t \in Threads : ConsoleJoin(t)

SpecSessions == InitSessions /\ [][NextSessions]_vars

(***************************************************************************)
(* The dispatch specification: calls by name, by an admin and by a user    *)
(***************************************************************************)
Dispatch(caller, method, param, net) ==
    /\ Done(method, caller, param, None, dispatch(World, caller, method, param, net))
    /\ UNCHANGED <<pc, frame>>

\* names of methods of the Manager that are not in the allow-list
HiddenMethods == {"_stop", "_dispatch", "start_container", "stop_container"}
UserMethods == {"shutdown", "reboot", "delete"}
DispatchCallers == {U_a, U_r}

InitDispatch == InitFrom({U_a, U_b})

NextDispatch ==
    \/ \E caller \in DispatchCallers, method \in UserMethods, user \in {U_a, U_b, U_z} :
          user \in Targets(caller) /\ Dispatch(caller, method, user, ResolveNet)
    \/ \E caller \in DispatchCallers, user \in {U_a, U_b, U_z} :
          Dispatch(caller, "boot_and_ip", user, ResolveNet)
    \/ \E caller \in DispatchCallers, host \in SchedHosts :
          Dispatch(caller, "boot_and_host", host, ResolveNet)
    \/ \E caller \in DispatchCallers, method \in HiddenMethods, user \in {U_a, U_z} :
          Dispatch(caller, method, user, ResolveNet)

SpecDispatch == InitDispatch /\ [][NextDispatch]_vars

(***************************************************************************)
(* The threaded port specification: add_port, remove_port and delete by    *)
(* two request threads.  check_init hands the handler a container object   *)
(* before the handler takes the container lock.                            *)
(***************************************************************************)
\* the labels at which a thread waits for self.container_lock: the step it
\* takes from there runs inside 'with self.container_lock'
holds_lock(label) == label \in {"add_port_lock", "remove_port_lock", "remove_domain_lock"}

AddPortCall(t, caller, user, iport, eport) ==
    /\ pc[t] = "idle"
    /\ LET c == check_init(World, caller, user)
       IN  IF c.err # "none"
           THEN Return(t, "add_port", caller, user, <<iport, eport>>,
                       Raise(World, c.err, c.msg))
           ELSE Block(t, "add_port_lock",
                      [op |-> "add_port", caller |-> caller, arg |-> user,
                       c |-> c.val, iport |-> iport, eport |-> eport])

AddPortLocked(t, r) ==
    /\ pc[t] = "add_port_lock"
    /\ Return(t, "add_port", frame[t].caller, frame[t].arg,
              <<frame[t].iport, frame[t].eport>>,
              add_port_locked(World, frame[t].c, frame[t].iport, frame[t].eport, r))

RemovePortCall(t, caller, user, iport) ==
    /\ pc[t] = "idle"
    /\ LET c == check_init(World, caller, user)
       IN  IF c.err # "none"
           THEN Return(t, "remove_port", caller, user, <<iport>>,
                       Raise(World, c.err, c.msg))
           ELSE Block(t, "remove_port_lock",
                      [op |-> "remove_port", caller |-> caller, arg |-> user,
                       c |-> c.val, iport |-> iport])

RemovePortLocked(t) ==
    /\ pc[t] = "remove_port_lock"
    /\ Return(t, "remove_port", frame[t].caller, frame[t].arg, <<frame[t].iport>>,
              remove_port_locked(World, frame[t].c, frame[t].iport))

\* decorators and the stop of a running container
DeleteCall(t, caller, user) ==
    /\ pc[t] = "idle"
    /\ LET c == check_init(World, caller, user)
           s == delete_stop(World, c.val.container)
       IN  IF c.err # "none"
           THEN Return(t, "delete", caller, user, None, Raise(World, c.err, c.msg))
           ELSE IF s.err # "none"
           THEN Return(t, "delete", caller, user, None, s)
           ELSE /\ SetWorld(s.w)
                /\ pc' = [pc EXCEPT ![t] = "delete_ports"]
                /\ frame' = [frame EXCEPT ![t] =
                                [op |-> "delete", caller |-> caller, arg |-> user,
                                 c |-> c.val]]
                /\ ret' = NoRet

\* the release loop, then the thread waits for the Runtime to delete
DeleteRelease(t) ==
    /\ pc[t] = "delete_ports"
    /\ LET r == delete_release(World, frame[t].c.container)
       IN  IF r.err # "none"
           THEN Return(t, "delete", frame[t].caller, frame[t].arg, None, r)
           ELSE /\ SetWorld(r.w)
                /\ pc' = [pc EXCEPT ![t] = "delete_runtime"]
                /\ UNCHANGED frame
                /\ ret' = NoRet

DeleteRuntime(t) ==
    /\ pc[t] = "delete_runtime"
    /\ Return(t, "delete", frame[t].caller, frame[t].arg, None,
              delete_runtime(World, frame[t].c.container))

IPortArgsMT == {22, 80}
EPortArgsMT == {ports_start}

NextPortsMT ==
    \/ \E t \in Threads, caller \in PortCallers, iport \in IPortArgsMT, eport \in EPortArgsMT :
          AddPortCall(t, caller, caller, iport, eport)
    \/ \E t \in Threads : AddPortLocked(t, 0)
    \/ \E t \in Threads, caller \in PortCallers, iport \in IPortArgsMT :
          RemovePortCall(t, caller, caller, iport)
    \/ \E t \in Threads : RemovePortLocked(t)
    \/ \E t \in Threads, caller \in PortCallers : DeleteCall(t, caller, caller)
    \/ \E t \in Threads : DeleteRelease(t)
    \/ \E t \in Threads : DeleteRuntime(t)

SpecPortsMT == InitPorts /\ [][NextPortsMT]_vars

(***************************************************************************)
(* The registry specification: domains are added and removed, containers   *)
(* are deleted and created again, one request at a time                    *)
(***************************************************************************)
RegistryCallers == {U_a, U_b}

NextRegistry ==
    \/ \E caller \in RegistryCallers, domain \in Domains :
          AddDomainCall(1, caller, caller, domain)
    \/ \E answer \in DnsAnswers : AddDomainCommit(1, answer)
    \/ \E caller \in RegistryCallers, domain \in Domains :
          RemoveDomainCall(1, caller, caller, domain)
    \/ RemoveDomainCommit(1)
    \/ \E caller \in RegistryCallers : Delete(caller, caller)
    \/ \E caller \in RegistryCallers, image \in Images : InitCall(1, caller, caller, image)
    \/ InitCreate(1)

SpecRegistry == InitDomains /\ [][NextRegistry]_vars

(***************************************************************************)
(* The tunnel specification: exec sessions are opened and closed, peers    *)
(* connect and hang up, the Runtime ends sessions with a text frame.  The  *)
(* task of a tunnel runs whenever it has something to do (weak fairness);  *)
(* nothing obliges a peer to connect or a caller to close.                 *)
(***************************************************************************)
\* a step of tunnel i that replaces its session record by s
TunnelSet(i, s) ==
    /\ sessions' = [sessions EXCEPT ![i] = s]
    /\ ret' = NoRet
    /\ UNCHANGED <<status, config, running_containers, ip_cache, custom_domains,
                   forwarded_ports, tcp_proxy, pc, frame, console_sessions,
                   exec_sessions>>

TunnelAccept(i) ==
    /\ i \in DOMAIN sessions
    /\ sessions[i].state = "WAITING_PEER"
    /\ TunnelSet(i, session_accept(sessions[i]))

TunnelFrame(i) ==
    /\ i \in DOMAIN sessions
    /\ sessions[i].state \in {"WAITING_PEER", "OPEN"}
    /\ ~sessions[i].barrier
    /\ TunnelSet(i, session_frame(sessions[i]))

TunnelHangup(i) ==
    /\ i \in DOMAIN sessions
    /\ sessions[i].state = "OPEN"
    /\ TunnelSet(i, session_hangup(sessions[i]))

TunnelRun(i) ==
    /\ i \in DOMAIN sessions
    /\ session_run(sessions[i]) # sessions[i]
    /\ TunnelSet(i, session_run(sessions[i]))

NextTunnel ==
    \/ \E caller \in SessionCallers : Exec(caller, caller)
    \/ \E caller \in SessionCallers, sid \in SidArgs : ExecClose(caller, caller, sid)
    \/ \E i \in SidArgs : TunnelAccept(i)
    \/ \E i \in SidArgs : TunnelFrame(i)
    \/ \E i \in SidArgs : TunnelHangup(i)
    \/ \E i \in SidArgs : TunnelRun(i)

SpecTunnel ==
    InitSessions /\ [][NextTunnel]_vars /\ \A i \in SidArgs : WF_vars(TunnelRun(i))

(***************************************************************************)
(* The address specification: the proxy asks for addresses, the Runtime    *)
(* answers container.state() with any list of addresses                    *)
(***************************************************************************)
IpUsers == {U_a, U_b}

InitIp == InitFrom(IpUsers)

NextIp ==
    \/ \E user \in IpUsers, net \in NetInfos : BootAndIp(U_r, user, net)
    \/ \E user \in IpUsers : Shutdown(U_r, user)

SpecIp == InitIp /\ [][NextIp]_vars

(***************************************************************************)
(* The cap specification: the daemon starts with at most run_limit running *)
(* containers and only the daemon starts and stops containers              *)
(***************************************************************************)
InitCap ==
    /\ Init
    /\ Cardinality({n \in DOMAIN status : status[n] = Running}) <= run_limit

NextCap ==
    \/ \E caller \in SchedCallers, user \in TargetArgs :
          user \in Targets(caller) /\ Shutdown(caller, user)
    \/ \E caller \in SchedCallers, user \in TargetArgs :
          user \in Targets(caller) /\ Reboot(caller, user)
    \/ \E caller \in SchedCallers, user \in TargetArgs :
          user \in Targets(caller) /\ Delete(caller, user)
    \/ \E caller \in SchedCallers, user \in TargetArgs, net \in SchedNets :
          BootAndIp(caller, user, net)
    \/ \E caller \in SchedCallers, host \in SchedHosts, hint \in BOOLEAN, net \in SchedNets :
          BootAndHost(caller, host, hint, net)

SpecCap == InitCap /\ [][NextCap]_vars

(***************************************************************************)
(* Claims                                                                  *)
(***************************************************************************)
LifecycleOps == {"shutdown", "reboot", "delete", "boot_and_ip", "boot_and_host"}

\* C1: whenever an operation has completed, RunningSet (running_containers)
\* holds at most run_limit names, whatever containers the Runtime reported
\* running when the daemon started.
C1_RunLimitAfterOperation ==
    ret.op \in LifecycleOps => Len(running_containers) <= run_limit

\* C2: start_container(target), called while RunningSet holds exactly
\* run_limit names and its oldest entry is still running, completes
\* successfully: the oldest entry is removed from RunningSet and stopped, no
\* other entry is removed, and target is started and appended as the newest.
C2_Pre(name) ==
    /\ name \in DOMAIN status
    /\ status[name] # Running
    /\ Len(running_containers) = run_limit
    /\ Head(running_containers) \in DOMAIN status
    /\ status[Head(running_containers)] = Running
C2_Post(name) ==
    /\ ret'.err = "none"
    /\ running_containers' = Append(Tail(running_containers), name)
    /\ status' = [status EXCEPT ![Head(running_containers)] = Stopped,
                                ![name] = Running]
C2_EvictionCompletes ==
    [][\A user \in pwd_users, net \in SchedNets :
          (C2_Pre(user_container(user)) /\ net.iface /\ BootAndIp(U_r, user, net))
             => C2_Post(user_container(user))]_vars

\* C3: in every reachable state no container name appears twice in
\* RunningSet (starting a container already listed adds no second entry).
C3_NoDuplicateRunning ==
    \A i, j \in 1..Len(running_containers) :
        i # j => running_containers[i] # running_containers[j]


\* C4 (as amended): for every forwarded-port set that is a proper subset of
\* [ports_start, ports_end), every value next_random_port can return, and
\* every value add_port returns for externalPort = 0, lies in
\* [ports_start, ports_end] (ports_end included) and is not in the
\* forwarded-port set.
C4_Pre ==
    /\ forwarded_ports \subseteq ports_start..(ports_end - 1)
    /\ forwarded_ports # ports_start..(ports_end - 1)
\* every value next_random_port can return in this state
C4_Allocator(range) ==
    C4_Pre =>
       \A r \in Draws(forwarded_ports) :
          /\ next_random_port(forwarded_ports, r).err = "none"
          /\ next_random_port(forwarded_ports, r).val \in range \ forwarded_ports
\* the step is a successful add_port with externalPort = 0 (only AddPort
\* sets ret.op to "add_port", and a successful one adds a forwarded port)
C4_AddPortReturned ==
    /\ ret'.op = "add_port"
    /\ ret'.err = "none"
    /\ ret'.arg[2] = 0
    /\ forwarded_ports' # forwarded_ports
C4_AddPort(range) ==
    (C4_Pre /\ C4_AddPortReturned)
       => /\ ret'.val \in range \ forwarded_ports
          /\ forwarded_ports' = forwarded_ports \cup {ret'.val}
ValidExternalPorts ==
    {p \in 1..(ports_end + 1) : check_valid_port(p).err = "none"}
\* the step is an add_port with externalPort = 0 that came to next_random_port
C5_ReachedAllocator ==
    /\ ret'.op = "add_port"
    /\ ret'.arg[2] = 0
    /\ \/ ret'.err = "none" /\ forwarded_ports' # forwarded_ports
       \/ ret'.msg = "empty range for randrange()"
       \/ ret'.msg = "all ports have been allocated"
C5_ExhaustedExactlyWhenFull ==
    [][C5_ReachedAllocator
          => IF ValidExternalPorts \subseteq forwarded_ports
             THEN ret'.err = "WebspaceError"
                  /\ ret'.msg = "all ports have been allocated"
             ELSE ret'.err = "none"]_vars

\* C6: under every interleaving of add_domain calls for one domain name the
\* name ends up in the persisted domain list of at most one container (at
\* most one of the calls succeeds).
C6_DomainInOneList ==
    \A d \in Domains :
        Cardinality({n \in DOMAIN config :
                        InSeq(d, get_container_domains(get(World, n)))}) <= 1

\* C7: for every user with a container and every unclaimed domain verified
\* for them, a successful add_domain immediately followed by remove_domain
\* leaves the global map and the container's persisted domain list exactly
\* as they were before the add.
C7_AddThenRemoveRestores ==
    \A u \in {U_a, U_b}, d \in Domains :
        LET n  == user_container(u)
            r1 == add_domain(World, u, u, d,
                             [rcode |-> "NOERROR", txt |-> {TxtPrefix \o u}])
            r2 == remove_domain(r1.w, u, u, d)
        IN  (n \in DOMAIN status /\ d \notin DOMAIN custom_domains /\ r1.err = "none")
            => /\ r2.err = "none"
               /\ r2.w.custom_domains = custom_domains
               /\ get_container_domains(get(r2.w, n))
                     = get_container_domains(get(World, n))

C8_Rejected(r) ==
    \/ /\ r.op = "set_option"
       /\ \/ r.arg[1] \in private_options
          \/ /\ r.arg[1] \in reserved_keys
             /\ reserved_options(r.arg[1], r.arg[2]).err # "none"
    \/ /\ r.op = "unset_option"
       /\ r.arg[1] \in private_options \cup reserved_keys

\* C8: set_option on a private key or with a value the reserved key's
\* validator rejects, and unset_option on a reserved or private key, fail
\* and leave the whole stored configuration unchanged.
C8_RejectedOptionLeavesConfig ==
    [][C8_Rejected(ret') => (ret'.err # "none" /\ config' = config)]_vars

\* a rejected port is reported after an accepted one was stored, and the
\* stored one is still there
C8_Witness ==
    /\ ret.op = "set_option"
    /\ ret.arg = <<"http_port", <<"0">>>>
    /\ ret.err = "ValueError"
    /\ config[user_container(U_a)]["http_port"] = <<"5">>

C9_AlreadyInitialized(r) ==
    /\ r.err = "WebspaceError"
    /\ r.msg = "Your container has already been initialized!"

C10_Reference(cd, host) ==
    LET i == find(host, ".")
        wildcard == <<"*">> \o (IF i < 0 THEN <<>> ELSE SliceFrom(host, i))
    IN  IF host \in DOMAIN cd THEN [user |-> cd[host], reason |-> ""]
        ELSE IF wildcard \in DOMAIN cd THEN [user |-> cd[wildcard], reason |-> ""]
        ELSE IF endswith(host, domain_suffix)
        THEN LET user == DropLast(host, Len(domain_suffix))
             IN  IF user \in pwd_users THEN [user |-> user, reason |-> ""]
                 ELSE [user |-> None, reason |-> "user"]
        ELSE [user |-> None, reason |-> "not_webspace"]

\* C10: for every host and every content of the custom-domain map,
\* boot_and_host resolves the owner the stated order gives, and replies
\* (None, 'not_webspace') or (None, 'user') when there is none.
C10_ResolvesAsReference ==
    (ret.op = "boot_and_host" /\ ret.err = "none")
    => LET ref == C10_Reference(custom_domains, ret.arg)
       IN  /\ ret.val.owner = ref.user
           /\ ref.user = None => ret.val.reply = <<None, ref.reason>>

C11_Live(i) == sessions[i].kind = "console" /\ sessions[i].state \notin {"INIT", "CLOSED"}

\* C11: at every moment each user has at most one console session that has
\* been started and not yet stopped, and every such session is the one on
\* record for its user in the user->session table.
C11_OneConsolePerUser ==
    \A i \in 1..Len(sessions) :
        C11_Live(i)
        => /\ sessions[i].user \in DOMAIN console_sessions
           /\ console_sessions[sessions[i].user] = i

\* C12: exec_close on a session id that exec returned, with the container
\* running, completes successfully and removes the id from the user's
\* exec-session table, leaving the user's other sessions in place.
C12_ExecCloseRemoves ==
    [][(/\ ret'.op = "exec_close"
        /\ ret'.user \in DOMAIN exec_sessions
        /\ ret'.arg \in DOMAIN exec_sessions[ret'.user]
        /\ user_container(ret'.user) \in DOMAIN status
        /\ status[user_container(ret'.user)] = Running)
       => /\ ret'.err = "none"
          /\ ret'.user \in DOMAIN exec_sessions'
          /\ exec_sessions'[ret'.user] = Without(exec_sessions[ret'.user], ret'.arg)
          /\ console_sessions' = console_sessions]_vars

\* C19: exec_resize, exec_signal and exec_close with a session id that is
\* not one of the user's exec sessions fail with the typed domain error
\* (WebspaceError), never with another exception, and leave the session
\* tables unchanged.
C19_UnknownSessionIsDomainError ==
    [][(/\ ret'.op \in {"exec_resize", "exec_signal", "exec_close"}
        /\ ~(/\ ret'.user \in DOMAIN exec_sessions
             /\ ret'.arg \in DOMAIN exec_sessions[ret'.user]))
       => /\ ret'.err = "WebspaceError"
          /\ UNCHANGED <<sessions, console_sessions, exec_sessions>>]_vars

\* C13: a call whose method name is not in the allow-list, and a call to
\* boot_and_host or boot_and_ip by a caller who is not an admin, is rejected
\* with an error while RunningSet, the IP cache, the forwarded-port set, the
\* custom-domain map, the session tables and every container's state and
\* configuration stay unchanged.
C13_DispatchFailsClosed ==
    [][(/\ ret' # NoRet
        /\ \/ ret'.op \notin allowed
           \/ ret'.op \in {"boot_and_host", "boot_and_ip"} /\ ret'.caller \notin admins)
       => /\ ret'.err # "none"
          /\ UNCHANGED <<status, config, running_containers, ip_cache,
                         custom_domains, forwarded_ports, tcp_proxy, sessions,
                         console_sessions, exec_sessions>>]_vars

\* a user who is no admin was refused boot_and_ip for a stopped container
\* of another user, which is still stopped
C13_Witness ==
    /\ ret.op = "boot_and_ip"
    /\ ret.caller = U_a
    /\ ret.user = U_b
    /\ ret.err = "WebspaceError"
    /\ user_container(U_b) \in DOMAIN status
    /\ status[user_container(U_b)] = Stopped

\* the external ports in the persisted port list of container n, as a sequence
C14_EPorts(n) == DictValues(get_container_ports(get(World, n)))

\* C14: whenever no call is in progress, no external port appears in the persisted port lists of two
\* containers or twice within one list, each internal port of a container
\* maps to exactly one external port, and no container holds more than the
\* per-container maximum of forwards.
C14_PortListsDisjoint ==
    (\A t \in Threads : pc[t] = "idle")
    => /\ \A n1, n2 \in DOMAIN config :
             \A i \in 1..Len(C14_EPorts(n1)), j \in 1..Len(C14_EPorts(n2)) :
                (n1 # n2 \/ i # j) => C14_EPorts(n1)[i] # C14_EPorts(n2)[j]
       /\ \A n \in DOMAIN config :
             LET ports == get_container_ports(get(World, n))
             IN  /\ Len(ports) <= ports_max
                 /\ \A i, j \in 1..Len(ports) : ports[i][1] = ports[j][1] => i = j

\* C15: whenever no add_port, remove_port or delete call is in progress, the
\* forwarded-port set, the external ports registered in the Proxy Engine and
\* the union of the external ports in the existing containers' persisted
\* port lists are the same set.
C15_PortTablesAgree ==
    (\A t \in Threads : pc[t] = "idle")
    => /\ forwarded_ports = DOMAIN tcp_proxy
       /\ forwarded_ports =
             UNION {{C14_EPorts(n)[i] : i \in 1..Len(C14_EPorts(n))} : n \in DOMAIN config}

\* C20: every write to the global forwarded-port set is performed by a
\* thread that holds the orchestrator lock (the same is claimed of
\* RunningSet, the IP cache and the custom-domain map).
C20_WritesUnderLock ==
    [][forwarded_ports' # forwarded_ports
       => \E t \in Threads : holds_lock(pc[t]) /\ pc'[t] = "idle"]_vars

\* C17: the IP cache holds an entry for a container only while that
\* container is in RunningSet.
C17_CacheOnlyForRunning ==
    \A name \in DOMAIN ip_cache :
       \E i \in 1..Len(running_containers) : running_containers[i] = name

\* C16: whenever no add_domain, remove_domain, init or delete call is in
\* progress, domain d maps to user u in the custom-domain map if and only if
\* u's container exists and d is in its persisted domain list.
C16_DomainMapMirrors ==
    (\A t \in Threads : pc[t] = "idle")
    => \A d \in Domains, u \in RegistryCallers :
          (d \in DOMAIN custom_domains /\ custom_domains[d] = u)
          <=> /\ user_container(u) \in DOMAIN config
              /\ InSeq(d, get_container_domains(get(World, user_container(u))))

\* C18: a Session Tunnel that receives a text (barrier) frame on its data
\* channel eventually reaches CLOSED with its rendezvous socket file removed,
\* in every state from which the frame can arrive.
C18_BarrierLeadsToClosed ==
    \A i \in SidArgs :
       (i \in DOMAIN sessions /\ sessions[i].barrier)
       ~> (i \in DOMAIN sessions /\ sessions[i].state = "CLOSED" /\ ~sessions[i].sock)

\* the IPv4 addresses of the interface that lie inside the subnet, in order
C21_InSubnet(net) ==
    SelectSeq([i \in 1..Len(net.addresses) |-> net.addresses[i]],
              LAMBDA i : i.family = "inet" /\ InCidr(i.address))

\* C21: for a running container with no cached address whose interface is
\* present and has an in-subnet IPv4 address, get_container_ip returns the
\* first such address and stores it in the IP cache; when the interface is
\* absent it fails with the 'iface' error and caches nothing; it never
\* returns an address outside the subnet.
C21_FirstInSubnetAddress ==
    [][\A user \in IpUsers, net \in NetInfos :
          LET name == user_container(user)
          IN  (/\ name \in DOMAIN status
               /\ status[name] = Running
               /\ name \notin DOMAIN ip_cache
               /\ BootAndIp(U_r, user, net))
              => /\ (net.iface /\ C21_InSubnet(net) # <<>>)
                    => /\ ret'.err = "none"
                       /\ ret'.val.addr = C21_InSubnet(net)[1].address
                       /\ name \in DOMAIN ip_cache'
                       /\ ip_cache'[name] = ret'.val.addr
                 /\ ~net.iface
                    => /\ ret'.err = "WebspaceError"
                       /\ ret'.msg = "iface"
                       /\ ip_cache' = ip_cache
                 /\ ret'.err = "none" => InCidr(ret'.val.addr)]_vars

\* C22: remove_domain invoked by a non-admin user for a domain that the
\* global map assigns to a different user fails and leaves the global
\* custom-domain map and every container's persisted configuration
\* unchanged, so the domain still resolves to its owner.
C22_RemoveKeepsOthersDomain ==
    [][\A t \in Threads :
          (/\ pc[t] = "remove_domain_lock"
           /\ RemoveDomainCommit(t)
           /\ frame[t].caller \notin admins
           /\ frame[t].domain \in DOMAIN custom_domains
           /\ custom_domains[frame[t].domain] # frame[t].user)
          => /\ ret'.err # "none"
             /\ custom_domains' = custom_domains
             /\ config' = config
             /\ resolve(custom_domains', frame[t].domain)
                   = resolve(custom_domains, frame[t].domain)]_vars

\* C23: every container the Runtime reports as running has its name in
\* RunningSet, and at most run_limit containers are running.
C23_RunningContainersCapped ==
    /\ \A n \in DOMAIN status : status[n] = Running => InSeq(n, running_containers)
    /\ Cardinality({n \in DOMAIN status : status[n] = Running}) <= run_limit

====
